---- MODULE Spec2Model ----
(***************************************************************************)
(* CPU-scheduling simulators of the repository: the FCFS, preemptive SJF   *)
(* and round-robin engines of the two variants                             *)
(*   GA = src/GeorgeAvdella/Code.py (fcfs, sjf_preemptive, rr, main)       *)
(*   RN = src/RachelNieman/Code.py  (simulate_fcfs, simulate_sjf_preemptive*)
(*        simulate_rr, parse_input_file, main)                             *)
(* One run is one behaviour: Init draws the input file's content, Main     *)
(* validates it, the policy's loop runs an iteration per step, and Report  *)
(* computes the metrics.                                                   *)
(*                                                                         *)
(* Process names are modelled by their rank in lexicographic order, so     *)
(* name comparison is integer comparison.  Python's None is None (-1).     *)
(* A log line "Time t : ..." is the record [tick, kind, subject, detail].  *)
(***************************************************************************)
EXTENDS Integers, Sequences, FiniteSets, TLC

\* ------------------------------------------------------------------ bounds
MaxProcs == 3
MaxArrival == 1
MaxBurst == 3
MaxRunfor == 5
MaxQuantum == 2

None == 0 - 1

VARIABLES
    variant,            \* "GA" | "RN": which source file runs
    use,                \* the `use` directive: "fcfs" | "sjf" | "rr"
    listing,            \* the process directives, in file order (names)
    arrival,            \* name -> arrival of its directive
    burst,              \* name -> burst of its directive
    processcount,       \* the `processcount` directive
    runfor,             \* the `runfor` directive
    has_quantum,        \* a `quantum` directive is present
    quantum,            \* its value (0 when absent)
    pc,                 \* position of the run
    processes,          \* the process list handed to the policy (names)
    remaining,          \* name -> Process.remaining
    start_time,         \* name -> Process.start_time
    finish_time,        \* name -> Process.finish_time
    t,                  \* t / time: the simulated clock
    timeline,           \* timeline / log: the event log
    by_time,            \* GA: arrivals index not yet popped
    idx,                \* GA fcfs: position in ready_order
    current,            \* GA current / p; RN current_proc, last_selected, running
    rq,                 \* GA rq; RN queue, ready_queue
    remaining_quantum,  \* RN simulate_rr: remaining_quantum
    ticks,              \* GA rr: iterations of range(ticks) still to run
    ran,                \* history: ran[k] executed tick k-1 (0 = idle tick)
    metrics,            \* result of the metrics step
    prior               \* history: <<outcome>> of an earlier run on the same
                        \* process set (<<>> in a first run)

input == <<variant, use, listing, arrival, burst, processcount, runfor,
           has_quantum, quantum>>
procst == <<remaining, start_time, finish_time>>
vars == <<variant, use, listing, arrival, burst, processcount, runfor,
          has_quantum, quantum, pc, processes, remaining, start_time,
          finish_time, t, timeline, by_time, idx, current, rq,
          remaining_quantum, ticks, ran, metrics, prior>>

\* ------------------------------------------------------------------ helpers
Range(s) == {s[i] : i \in DOMAIN s}

Perms(n) == {s \in [1..n -> 1..n] : \A i, j \in 1..n : i # j => s[i] # s[j]}

Min2(a, b) == IF a <= b THEN a ELSE b

Arrived(now, p) == [tick |-> now, kind |-> "Arrived", subject |-> p, detail |-> None]
Selected(now, p, r) == [tick |-> now, kind |-> "Selected", subject |-> p, detail |-> r]
Idle(now) == [tick |-> now, kind |-> "Idle", subject |-> None, detail |-> None]
Finished(now, p) == [tick |-> now, kind |-> "Finished", subject |-> p, detail |-> None]

\* Process.is_finished (RN)
is_finished(rem, p) == rem[p] <= 0

\* sorted(..., key=lambda p: (p.arrival, p.name))
ArrivalNameLess(a, b) ==
    \/ arrival[a] < arrival[b]
    \/ arrival[a] = arrival[b] /\ a < b

\* sorted(..., key=lambda x: x.name)
NameLess(a, b) == a < b

ArrivingAt(ps, now) == SelectSeq(ps, LAMBDA p : arrival[p] = now)

ArrivedLines(ps, now) == [i \in 1..Len(ps) |-> Arrived(now, ps[i])]

\* GA arrivals_index: arrival tick -> the processes arriving then, by name
arrivals_index(ps) ==
    [tk \in 0..MaxArrival |-> SortSeq(ArrivingAt(ps, tk), NameLess)]

\* mutant of AfterPop: by_time.get in place of by_time.pop
AfterPopKeep(bt, now) == bt

\* by_time.pop(now, []): the popped list, and the index after the pop
Popped(bt, now) == IF now \in DOMAIN bt THEN bt[now] ELSE <<>>
AfterPop(bt, now) == IF now \in DOMAIN bt THEN [bt EXCEPT ![now] = <<>>] ELSE bt

\* GA emit_arrivals(now): the lines it appends
emit_arrivals(bt, now) == ArrivedLines(Popped(bt, now), now)

\* GA fcfs: ready_order = sorted(processes, key=(arrival, name))
ready_order == SortSeq(processes, ArrivalNameLess)

\* mutant of ordered: the processes in file order
orderedAsListed == processes

\* RN simulate_fcfs: ordered = sorted(process_list, key=(arrival, name))
ordered == SortSeq(processes, ArrivalNameLess)

\* ------------------------------------------------------------------ Init
\* 0 stands for the non-positive quantum values
QuantumValues == 0..MaxQuantum

Init ==
    /\ variant \in {"GA", "RN"}
    /\ use \in {"fcfs", "sjf", "rr"}
    /\ \E n \in 1..MaxProcs :
        /\ listing \in Perms(n)
        /\ arrival \in [1..n -> 0..MaxArrival]
        /\ burst \in [1..n -> 1..MaxBurst]
        /\ processcount \in (n - 1)..(n + 1)
    /\ runfor \in 0..MaxRunfor
    /\ has_quantum \in (IF use = "rr" THEN BOOLEAN ELSE {FALSE})
    /\ quantum \in (IF has_quantum THEN QuantumValues ELSE {0})
    /\ pc = "main"
    /\ processes = <<>>
    /\ remaining = burst
    /\ start_time = [p \in DOMAIN burst |-> None]
    /\ finish_time = [p \in DOMAIN burst |-> None]
    /\ t = 0
    /\ timeline = <<>>
    /\ by_time = [tk \in 0..MaxArrival |-> <<>>]
    /\ idx = 1
    /\ current = None
    /\ rq = <<>>
    /\ remaining_quantum = 0
    /\ ticks = 0
    /\ ran = <<>>
    /\ metrics = <<>>
    /\ prior = <<>>

\* ------------------------------------------------------------------ main
\* GA main, lines 334-339: the required-parameter checks that can fail here
GA_ConfigError ==
    \/ use = "rr" /\ ~has_quantum
    \/ processcount # Len(listing)

\* GA rr, lines 125-127
GA_RrQuantumError == quantum <= 0

GA_Main ==
    /\ pc = "main" /\ variant = "GA"
    /\ IF GA_ConfigError \/ (use = "rr" /\ GA_RrQuantumError)
       THEN /\ pc' = "error"
            /\ UNCHANGED <<processes, by_time, timeline, rq>>
       ELSE /\ processes' = listing
            /\ pc' = use
            /\ IF use = "rr"
               THEN \* rr lines 129-138: emit_and_enqueue(0) before the loop
                    /\ timeline' = emit_arrivals(arrivals_index(listing), 0)
                    /\ rq' = Popped(arrivals_index(listing), 0)
                    /\ by_time' = AfterPop(arrivals_index(listing), 0)
               ELSE /\ by_time' = arrivals_index(listing)
                    /\ UNCHANGED <<timeline, rq>>
    /\ UNCHANGED <<input, prior, procst, t, idx, current, remaining_quantum, ticks, ran, metrics>>

\* RN parse_input_file, lines 136-140
RN_ConfigError ==
    \/ use = "rr" /\ ~has_quantum
    \/ Len(listing) < processcount

\* RN parse_input_file, lines 141-142: processes[:processcount]
RN_Truncate(ps, count) ==
    IF Len(ps) > count THEN SubSeq(ps, 1, count) ELSE ps

RN_Main ==
    /\ pc = "main" /\ variant = "RN"
    /\ IF RN_ConfigError
       THEN pc' = "error" /\ UNCHANGED processes
       ELSE /\ processes' = RN_Truncate(listing, processcount)
            /\ pc' = use
    /\ UNCHANGED <<input, prior, procst, t, timeline, by_time, idx, current, rq,
                   remaining_quantum, ticks, ran, metrics>>

\* ------------------------------------------------------------------ GA fcfs
\* mutant of GA_FcfsWaiting: the arrival tick itself is waited out
GA_FcfsWaitingInclusive == t <= arrival[ready_order[idx]] /\ t < runfor

\* line 56: the condition of the wait loop
GA_FcfsWaiting == t < arrival[ready_order[idx]] /\ t < runfor

\* lines 56-59: one iteration of the wait loop
GA_FcfsIdle ==
    /\ pc = "fcfs" /\ variant = "GA"
    /\ GA_FcfsWaiting
    /\ timeline' = timeline \o emit_arrivals(by_time, t) \o <<Idle(t)>>
    /\ by_time' = AfterPop(by_time, t)
    /\ t' = t + 1
    /\ ran' = Append(ran, 0)
    /\ UNCHANGED <<input, prior, pc, processes, procst, idx, current, rq,
                   remaining_quantum, ticks, metrics>>

\* lines 60-61: break
GA_FcfsBreak ==
    /\ pc = "fcfs" /\ variant = "GA"
    /\ ~GA_FcfsWaiting
    /\ t >= runfor
    /\ pc' = "fcfs_tail"
    /\ UNCHANGED <<input, prior, processes, procst, t, timeline, by_time, idx,
                   current, rq, remaining_quantum, ticks, ran, metrics>>

\* lines 63-67: the process gets the CPU
GA_FcfsSelect ==
    /\ pc = "fcfs" /\ variant = "GA"
    /\ ~GA_FcfsWaiting
    /\ t < runfor
    /\ LET p == ready_order[idx] IN
        /\ current' = p
        /\ by_time' = AfterPop(by_time, t)
        /\ IF start_time[p] = None
           THEN /\ start_time' = [start_time EXCEPT ![p] = t]
                /\ timeline' = timeline \o emit_arrivals(by_time, t)
                                  \o <<Selected(t, p, remaining[p])>>
           ELSE /\ start_time' = start_time
                /\ timeline' = timeline \o emit_arrivals(by_time, t)
    /\ pc' = "fcfs_run"
    /\ UNCHANGED <<input, prior, processes, remaining, finish_time, t, idx, rq,
                   remaining_quantum, ticks, ran, metrics>>

\* mutant of GA_FcfsRunning: the loop runs to the horizon
GA_FcfsRunningToHorizon == t < runfor

GA_FcfsRunning == remaining[current] > 0 /\ t < runfor

\* lines 69-72: one executed tick
GA_FcfsRun ==
    /\ pc = "fcfs_run"
    /\ GA_FcfsRunning
    /\ t' = t + 1
    /\ remaining' = [remaining EXCEPT ![current] = @ - 1]
    /\ timeline' = timeline \o emit_arrivals(by_time, t + 1)
    /\ by_time' = AfterPop(by_time, t + 1)
    /\ ran' = Append(ran, current)
    /\ UNCHANGED <<input, prior, pc, processes, start_time, finish_time, idx,
                   current, rq, remaining_quantum, ticks, metrics>>

\* lines 74-76, then the next process of ready_order (or the tail loop)
GA_FcfsNext ==
    /\ pc = "fcfs_run"
    /\ ~GA_FcfsRunning
    /\ IF remaining[current] = 0
       THEN /\ finish_time' = [finish_time EXCEPT ![current] = t]
            /\ timeline' = Append(timeline, Finished(t, current))
       ELSE UNCHANGED <<finish_time, timeline>>
    /\ idx' = idx + 1
    /\ pc' = IF idx + 1 > Len(ready_order) THEN "fcfs_tail" ELSE "fcfs"
    /\ UNCHANGED <<input, prior, processes, remaining, start_time, t, by_time,
                   current, rq, remaining_quantum, ticks, ran, metrics>>

\* lines 78-81: one iteration of the trailing idle loop
GA_FcfsTail ==
    /\ pc = "fcfs_tail"
    /\ t < runfor
    /\ timeline' = timeline \o emit_arrivals(by_time, t) \o <<Idle(t)>>
    /\ by_time' = AfterPop(by_time, t)
    /\ t' = t + 1
    /\ ran' = Append(ran, 0)
    /\ UNCHANGED <<input, prior, pc, processes, procst, idx, current, rq,
                   remaining_quantum, ticks, metrics>>

\* ------------------------------------------------------------------ GA sjf
\* the ready test of line 103 and of pick, line 95
GA_Ready(ps, rem, now) == SelectSeq(ps, LAMBDA p : arrival[p] <= now /\ rem[p] > 0)

\* mutant of RemainingKeyLess: the key without `remaining`
RemainingKeyLessByArrival(rem, a, b) == ArrivalNameLess(a, b)

\* r.sort(key=lambda p: (p.remaining, p.arrival, p.name)), line 98
RemainingKeyLess(rem, a, b) ==
    \/ rem[a] < rem[b]
    \/ rem[a] = rem[b] /\ arrival[a] < arrival[b]
    \/ rem[a] = rem[b] /\ arrival[a] = arrival[b] /\ a < b

\* mutant of pick: the first ready process in list order
pickFirstReady(ps, rem, now) == GA_Ready(ps, rem, now)[1]

\* sjf_preemptive.pick, lines 94-99 (called with a non-empty ready list)
pick(ps, rem, now) ==
    SortSeq(GA_Ready(ps, rem, now), LAMBDA a, b : RemainingKeyLess(rem, a, b))[1]

\* lines 102-106: an idle iteration
GA_SjfIdle ==
    /\ pc = "sjf" /\ variant = "GA"
    /\ t < runfor
    /\ GA_Ready(processes, remaining, t) = <<>>
    /\ timeline' = timeline \o emit_arrivals(by_time, t) \o <<Idle(t)>>
    /\ by_time' = AfterPop(by_time, t)
    /\ t' = t + 1
    /\ ran' = Append(ran, 0)
    /\ UNCHANGED <<input, prior, pc, processes, procst, idx, current, rq,
                   remaining_quantum, ticks, metrics>>

\* lines 102-121: an iteration that executes one tick
GA_SjfRun ==
    /\ pc = "sjf" /\ variant = "GA"
    /\ t < runfor
    /\ GA_Ready(processes, remaining, t) # <<>>
    /\ LET best == pick(processes, remaining, t)
           sel == IF current # best
                  THEN <<Selected(t, best, remaining[best])>> ELSE <<>>
           bt1 == AfterPop(by_time, t)
           done == remaining[best] - 1 = 0
       IN
        /\ start_time' = IF current # best /\ start_time[best] = None
                         THEN [start_time EXCEPT ![best] = t] ELSE start_time
        /\ remaining' = [remaining EXCEPT ![best] = @ - 1]
        /\ timeline' = timeline \o emit_arrivals(by_time, t) \o sel
                          \o emit_arrivals(bt1, t + 1)
                          \o (IF done THEN <<Finished(t + 1, best)>> ELSE <<>>)
        /\ by_time' = AfterPop(bt1, t + 1)
        /\ finish_time' = IF done THEN [finish_time EXCEPT ![best] = t + 1]
                          ELSE finish_time
        /\ current' = IF done THEN None ELSE best
        /\ ran' = Append(ran, best)
    /\ t' = t + 1
    /\ UNCHANGED <<input, prior, pc, processes, idx, rq, remaining_quantum, ticks, metrics>>

\* ------------------------------------------------------------------ GA rr
\* mutants of GA_RrTicks: a slice one tick too long; the horizon forgotten
GA_RrTicksLong(q, rem, left) == Min2(Min2(q + 1, rem), left)
GA_RrTicksNoHorizon(q, rem, left) == Min2(q, rem)

\* line 153
GA_RrTicks(q, rem, left) == Min2(Min2(q, rem), left)

\* line 141: the ready queue after emit_and_enqueue(t), as lines 142 and 148
\* find it
GA_RrQueue == rq \o Popped(by_time, t)

\* lines 141-146: the queue is empty after the arrivals of t
GA_RrIdle ==
    /\ pc = "rr" /\ variant = "GA"
    /\ t < runfor
    /\ GA_RrQueue = <<>>
    /\ LET bt1 == AfterPop(by_time, t) IN
        /\ timeline' = timeline \o emit_arrivals(by_time, t) \o <<Idle(t)>>
                          \o emit_arrivals(bt1, t + 1)
        /\ rq' = GA_RrQueue \o Popped(bt1, t + 1)
        /\ by_time' = AfterPop(bt1, t + 1)
    /\ t' = t + 1
    /\ ran' = Append(ran, 0)
    /\ UNCHANGED <<input, prior, pc, processes, procst, idx, current,
                   remaining_quantum, ticks, metrics>>

\* lines 141-153: dequeue the head and start its slice
GA_RrSelect ==
    /\ pc = "rr" /\ variant = "GA"
    /\ t < runfor
    /\ GA_RrQueue # <<>>
    /\ LET rq1 == GA_RrQueue
           p == Head(rq1)
           n == GA_RrTicks(quantum, remaining[p], runfor - t)
       IN
        /\ current' = p
        /\ start_time' = IF start_time[p] = None
                         THEN [start_time EXCEPT ![p] = t] ELSE start_time
        /\ timeline' = timeline \o emit_arrivals(by_time, t)
                          \o <<Selected(t, p, remaining[p])>>
        /\ by_time' = AfterPop(by_time, t)
        /\ ticks' = n
        \* range(ticks) empty: lines 163-164 at once
        /\ rq' = IF n <= 0 /\ remaining[p] > 0
                 THEN Append(Tail(rq1), p) ELSE Tail(rq1)
        /\ pc' = IF n <= 0 THEN "rr" ELSE "rr_slice"
    /\ UNCHANGED <<input, prior, processes, remaining, finish_time, t, idx,
                   remaining_quantum, ran, metrics>>

\* mutant of GA_Requeue: the unfinished process is appended twice
GA_RequeueTwice(q, rem, p) == IF rem[p] > 0 THEN Append(Append(q, p), p) ELSE q

\* mutant of GA_Requeue: the unfinished process goes back to the head
GA_RequeueFront(q, rem, p) == IF rem[p] > 0 THEN <<p>> \o q ELSE q

\* line 163-164: the unfinished process goes back to the tail
GA_Requeue(q, rem, p) == IF rem[p] > 0 THEN Append(q, p) ELSE q

\* lines 154-164: one iteration of the slice loop, and the re-enqueue when
\* the loop ends with it
GA_RrTick ==
    /\ pc = "rr_slice"
    /\ ticks > 0
    /\ LET p == current
           rem1 == [remaining EXCEPT ![p] = @ - 1]
           rq1 == rq \o Popped(by_time, t + 1)
           done == rem1[p] = 0
           last == done \/ ticks - 1 = 0
       IN
        /\ remaining' = rem1
        /\ timeline' = timeline \o emit_arrivals(by_time, t + 1)
                          \o (IF done THEN <<Finished(t + 1, p)>> ELSE <<>>)
        /\ by_time' = AfterPop(by_time, t + 1)
        /\ finish_time' = IF done THEN [finish_time EXCEPT ![p] = t + 1]
                          ELSE finish_time
        /\ ticks' = IF last THEN 0 ELSE ticks - 1
        /\ rq' = IF last THEN GA_Requeue(rq1, rem1, p) ELSE rq1
        /\ pc' = IF last THEN "rr" ELSE "rr_slice"
        /\ ran' = Append(ran, p)
    /\ t' = t + 1
    /\ UNCHANGED <<input, prior, processes, start_time, idx, current,
                   remaining_quantum, metrics>>

\* ------------------------------------------------------------------ RN fcfs
\* mutant of RN_FcfsFree: the running process is not protected
RN_FcfsFreeAlways(cur, rem) == TRUE

\* lines 162-164: the CPU is free
RN_FcfsFree(cur, rem) == cur = None \/ is_finished(rem, cur)

\* lines 156-181: one iteration of the loop
RN_FcfsStep ==
    /\ pc = "fcfs" /\ variant = "RN"
    /\ t < runfor
    /\ LET arr == ArrivingAt(ordered, t)
           queue1 == rq \o arr
           free == RN_FcfsFree(current, remaining)
           cur1 == IF free THEN None ELSE current
           pops == free /\ queue1 # <<>>
           candidate == Head(queue1)
           takes == pops /\ ~is_finished(remaining, candidate)
           cur2 == IF takes THEN candidate ELSE cur1
           rem1 == IF cur2 = None THEN remaining
                   ELSE [remaining EXCEPT ![cur2] = @ - 1]
           done == cur2 # None /\ rem1[cur2] = 0
       IN
        /\ rq' = IF pops THEN Tail(queue1) ELSE queue1
        /\ current' = cur2
        /\ start_time' = IF takes /\ start_time[candidate] = None
                         THEN [start_time EXCEPT ![candidate] = t]
                         ELSE start_time
        /\ remaining' = rem1
        /\ finish_time' = IF done THEN [finish_time EXCEPT ![cur2] = t + 1]
                          ELSE finish_time
        /\ timeline' = timeline \o ArrivedLines(arr, t)
              \o (IF takes THEN <<Selected(t, candidate, remaining[candidate])>>
                  ELSE <<>>)
              \o (IF cur2 = None THEN <<Idle(t)>> ELSE <<>>)
              \o (IF done THEN <<Finished(t + 1, cur2)>> ELSE <<>>)
        /\ ran' = Append(ran, IF cur2 = None THEN 0 ELSE cur2)
    /\ t' = t + 1
    /\ UNCHANGED <<input, prior, pc, processes, by_time, idx, remaining_quantum,
                   ticks, metrics>>

\* ------------------------------------------------------------------ RN sjf
\* line 195
RN_Ready(ps, rem, now) ==
    SelectSeq(ps, LAMBDA p : arrival[p] <= now /\ ~is_finished(rem, p))

\* mutant of RN_SjfMin: the first ready process in list order
RN_SjfFirst(ready, rem) == ready[1]

\* line 198: min(ready, key=(remaining, arrival, name))
RN_SjfMin(ready, rem) ==
    SortSeq(ready, LAMBDA a, b : RemainingKeyLess(rem, a, b))[1]

\* mutant of RN_SjfNewlySelected: every executed tick counts as a selection
RN_SjfAlwaysSelected(last, sel) == TRUE

\* line 199
RN_SjfNewlySelected(last, sel) == last = None \/ last # sel

\* lines 190-215 with an empty ready list
RN_SjfIdle ==
    /\ pc = "sjf" /\ variant = "RN"
    /\ t < runfor
    /\ RN_Ready(processes, remaining, t) = <<>>
    /\ timeline' = timeline \o ArrivedLines(ArrivingAt(processes, t), t)
                      \o <<Idle(t)>>
    /\ current' = None
    /\ t' = t + 1
    /\ ran' = Append(ran, 0)
    /\ UNCHANGED <<input, prior, pc, processes, procst, by_time, idx, rq,
                   remaining_quantum, ticks, metrics>>

\* lines 190-215 with a ready process
RN_SjfRun ==
    /\ pc = "sjf" /\ variant = "RN"
    /\ t < runfor
    /\ RN_Ready(processes, remaining, t) # <<>>
    /\ LET selected == RN_SjfMin(RN_Ready(processes, remaining, t), remaining)
           new == RN_SjfNewlySelected(current, selected)
           done == remaining[selected] - 1 = 0
       IN
        /\ start_time' = IF new /\ start_time[selected] = None
                         THEN [start_time EXCEPT ![selected] = t]
                         ELSE start_time
        /\ remaining' = [remaining EXCEPT ![selected] = @ - 1]
        /\ finish_time' = IF done THEN [finish_time EXCEPT ![selected] = t + 1]
                          ELSE finish_time
        /\ timeline' = timeline \o ArrivedLines(ArrivingAt(processes, t), t)
              \o (IF new THEN <<Selected(t, selected, remaining[selected])>>
                  ELSE <<>>)
              \o (IF done THEN <<Finished(t + 1, selected)>> ELSE <<>>)
        /\ current' = IF done THEN None ELSE selected
        /\ ran' = Append(ran, selected)
    /\ t' = t + 1
    /\ UNCHANGED <<input, prior, pc, processes, by_time, idx, rq, remaining_quantum,
                   ticks, metrics>>

\* ------------------------------------------------------------------ RN rr
\* lines 227-231: the arrivals of `now` that join the ready queue
RN_RrArrivals(ps, rem, now) ==
    SelectSeq(ArrivingAt(ps, now), LAMBDA p : ~is_finished(rem, p))

\* mutant of RN_RrReschedule: an expired quantum does not reschedule
RN_RrRescheduleNoExpiry(run, rem, rquant) ==
    run = None \/ is_finished(rem, run)

\* line 233
RN_RrReschedule(run, rem, rquant) ==
    run = None \/ is_finished(rem, run) \/ rquant = 0

\* lines 238-246: finished candidates are popped and dropped
RECURSIVE RN_DropFinished(_, _)
RN_DropFinished(q, rem) ==
    IF q = <<>> THEN q
    ELSE IF is_finished(rem, Head(q)) THEN RN_DropFinished(Tail(q), rem)
    ELSE q

\* lines 227-231: the ready queue after the arrivals of t
RN_RrEnqueued == rq \o RN_RrArrivals(processes, remaining, t)

\* lines 233-235: the ready queue as the dequeue loop of line 238 finds it
RN_RrQueue ==
    IF /\ RN_RrReschedule(current, remaining, remaining_quantum)
       /\ current # None
       /\ ~is_finished(remaining, current)
       /\ remaining_quantum = 0
    THEN Append(RN_RrEnqueued, current) ELSE RN_RrEnqueued

\* lines 226-260: one iteration of the loop
RN_RrStep ==
    /\ pc = "rr" /\ variant = "RN"
    /\ t < runfor
    /\ LET queue1 == RN_RrEnqueued
           resched == RN_RrReschedule(current, remaining, remaining_quantum)
           queue2 == RN_RrQueue
           queue3 == RN_DropFinished(queue2, remaining)
           takes == resched /\ queue3 # <<>>
           candidate == Head(queue3)
           run1 == IF resched THEN (IF takes THEN candidate ELSE None)
                   ELSE current
           rquant1 == IF resched THEN (IF takes THEN quantum ELSE 0)
                      ELSE remaining_quantum
           rem1 == IF run1 = None THEN remaining
                   ELSE [remaining EXCEPT ![run1] = @ - 1]
           done == run1 # None /\ rem1[run1] = 0
       IN
        /\ rq' = IF resched THEN (IF takes THEN Tail(queue3) ELSE queue3)
                 ELSE queue1
        /\ start_time' = IF takes /\ start_time[candidate] = None
                         THEN [start_time EXCEPT ![candidate] = t]
                         ELSE start_time
        /\ remaining' = rem1
        /\ finish_time' = IF done THEN [finish_time EXCEPT ![run1] = t + 1]
                          ELSE finish_time
        /\ current' = IF done THEN None ELSE run1
        /\ remaining_quantum' = IF run1 = None \/ done THEN 0 ELSE rquant1 - 1
        /\ timeline' = timeline \o ArrivedLines(ArrivingAt(processes, t), t)
              \o (IF takes THEN <<Selected(t, candidate, remaining[candidate])>>
                  ELSE <<>>)
              \o (IF run1 = None THEN <<Idle(t)>> ELSE <<>>)
              \o (IF done THEN <<Finished(t + 1, run1)>> ELSE <<>>)
        /\ ran' = Append(ran, IF run1 = None THEN 0 ELSE run1)
    /\ t' = t + 1
    /\ UNCHANGED <<input, prior, pc, processes, by_time, idx, ticks, metrics>>

\* ------------------------------------------------------------------ metrics
NoMetrics == [waiting |-> None, turnaround |-> None, response |-> None]

\* mutant of calc_metrics: response measured to finish_time
calc_metrics_response_to_finish(ps) ==
    [p \in Range(ps) |->
        IF finish_time[p] = None \/ start_time[p] = None THEN NoMetrics
        ELSE [turnaround |-> finish_time[p] - arrival[p],
              waiting |-> (finish_time[p] - arrival[p]) - burst[p],
              response |-> finish_time[p] - arrival[p]]]

\* GA calc_metrics, lines 29-39
calc_metrics(ps) ==
    [p \in Range(ps) |->
        IF finish_time[p] = None \/ start_time[p] = None THEN NoMetrics
        ELSE [turnaround |-> finish_time[p] - arrival[p],
              waiting |-> (finish_time[p] - arrival[p]) - burst[p],
              response |-> start_time[p] - arrival[p]]]

\* mutant of GA_DidNotFinish: only a process that never started is reported
GA_DidNotFinishUnstarted(p) == start_time[p] = None

\* GA main, lines 367-375: p is written as "did not finish"
GA_DidNotFinish(p) == finish_time[p] = None

\* RN print_metrics_lines, line 271: p gets a metrics line
RN_HasMetrics(p) == is_finished(remaining, p) /\ finish_time[p] # None

\* RN print_metrics_lines, lines 267-278
print_metrics_lines(ps) ==
    [p \in Range(ps) |->
        IF RN_HasMetrics(p)
        THEN [turnaround |-> finish_time[p] - arrival[p],
              waiting |-> (finish_time[p] - arrival[p]) - burst[p],
              response |-> IF start_time[p] # None
                           THEN start_time[p] - arrival[p] ELSE 0]
        ELSE NoMetrics]

\* mutant of Returned: the loops may end before the clock reaches runfor
ReturnedBeforeHorizon ==
    \/ variant = "GA" /\ pc \in {"fcfs_tail", "sjf", "rr"}
    \/ variant = "RN" /\ pc \in {"fcfs", "sjf", "rr"}

\* the policy function has returned
Returned ==
    /\ t >= runfor
    /\ \/ variant = "GA" /\ pc \in {"fcfs_tail", "sjf", "rr"}
       \/ variant = "RN" /\ pc \in {"fcfs", "sjf", "rr"}

\* GA main lines 366-375, RN main lines 322-326
Report ==
    /\ Returned
    /\ metrics' = IF variant = "GA"
                  THEN [lines |-> calc_metrics(processes),
                        unfinished |-> {p \in Range(processes) : GA_DidNotFinish(p)}]
                  ELSE [lines |-> print_metrics_lines(processes),
                        unfinished |-> {p \in Range(processes) : ~RN_HasMetrics(p)}]
    /\ pc' = "done"
    /\ UNCHANGED <<input, prior, processes, procst, t, timeline, by_time, idx,
                   current, rq, remaining_quantum, ticks, ran>>

Next ==
    \/ GA_Main
    \/ RN_Main
    \/ GA_FcfsIdle
    \/ GA_FcfsBreak
    \/ GA_FcfsSelect
    \/ GA_FcfsRun
    \/ GA_FcfsNext
    \/ GA_FcfsTail
    \/ GA_SjfIdle
    \/ GA_SjfRun
    \/ GA_RrIdle
    \/ GA_RrSelect
    \/ GA_RrTick
    \/ RN_FcfsStep
    \/ RN_SjfIdle
    \/ RN_SjfRun
    \/ RN_RrStep
    \/ Report

Spec == Init /\ [][Next]_vars

\* ------------------------------------------------------------------ rerun
\* what a run leaves behind: the log and the final process records
Outcome ==
    [timeline |-> timeline, remaining |-> remaining,
     start_time |-> start_time, finish_time |-> finish_time]

Ascending(n) == [i \in 1..n |-> i]

\* the input satisfies the input contract (spec section 6)
ValidInput ==
    /\ processcount = Len(listing)
    /\ use = "rr" => has_quantum /\ quantum >= 1

\* main is started again on the same valid input file, its process
\* directives now listed in ascending name order; the first outcome is kept
Rerun ==
    /\ pc = "done"
    /\ prior = <<>>
    /\ ValidInput
    /\ listing # Ascending(Len(listing))
    /\ prior' = <<Outcome>>
    /\ listing' = Ascending(Len(listing))
    /\ pc' = "main"
    /\ processes' = <<>>
    /\ remaining' = burst
    /\ start_time' = [p \in DOMAIN burst |-> None]
    /\ finish_time' = [p \in DOMAIN burst |-> None]
    /\ t' = 0
    /\ timeline' = <<>>
    /\ by_time' = [tk \in 0..MaxArrival |-> <<>>]
    /\ idx' = 1
    /\ current' = None
    /\ rq' = <<>>
    /\ remaining_quantum' = 0
    /\ ticks' = 0
    /\ ran' = <<>>
    /\ metrics' = <<>>
    /\ UNCHANGED <<variant, use, arrival, burst, processcount, runfor,
                   has_quantum, quantum>>

\* two runs in a row: any listing order, then ascending name order
SpecRerun == Init /\ [][Next \/ Rerun]_vars

\* a started run goes on until main returns: every loop of the program is
\* run by one thread that is never suspended for ever
FairSpec == Init /\ [][Next]_vars /\ WF_vars(Next)

\* the same input file given to the other program: after a GeorgeAvdella run
\* on directives in ascending name order, RachelNieman runs on the same input
RunOtherVariant ==
    /\ pc = "done"
    /\ prior = <<>>
    /\ ValidInput
    /\ variant = "GA"
    /\ listing = Ascending(Len(listing))
    /\ prior' = <<Outcome>>
    /\ variant' = "RN"
    /\ pc' = "main"
    /\ processes' = <<>>
    /\ remaining' = burst
    /\ start_time' = [p \in DOMAIN burst |-> None]
    /\ finish_time' = [p \in DOMAIN burst |-> None]
    /\ t' = 0
    /\ timeline' = <<>>
    /\ by_time' = [tk \in 0..MaxArrival |-> <<>>]
    /\ idx' = 1
    /\ current' = None
    /\ rq' = <<>>
    /\ remaining_quantum' = 0
    /\ ticks' = 0
    /\ ran' = <<>>
    /\ metrics' = <<>>
    /\ UNCHANGED <<use, listing, arrival, burst, processcount, runfor,
                   has_quantum, quantum>>

\* the two variants side by side on one input
SpecBoth == Init /\ [][Next \/ RunOtherVariant]_vars

\* ------------------------------------------------------------------ properties
Pos == DOMAIN timeline
Procs == DOMAIN arrival

IsEvent(i, k) == timeline[i].kind = k
EventsOf(k, p) == {i \in Pos : IsEvent(i, k) /\ timeline[i].subject = p}
IdleAt(tk) == {i \in Pos : IsEvent(i, "Idle") /\ timeline[i].tick = tk}
SelectedTicks(p) == {timeline[i].tick : i \in EventsOf("Selected", p)}

\* ticks of [0, T) that p executed, and its remaining at the start of tick T
ExecutedBefore(p, T) == Cardinality({k \in 1..T : k <= Len(ran) /\ ran[k] = p})
RemainingAt(p, T) == burst[p] - ExecutedBefore(p, T)

RECURSIVE SumOver(_, _)
SumOver(f, S) ==
    IF S = {} THEN 0
    ELSE LET x == CHOOSE y \in S : TRUE IN f[x] + SumOver(f, S \ {x})

\* C1: the log is in tick order, and within a tick every Arrived event comes
\* before every Selected, Idle and Finished event (all policies, both variants)
C1_LogOrdered ==
    ValidInput =>
        \A i, j \in Pos : i < j =>
            /\ timeline[i].tick <= timeline[j].tick
            /\ (timeline[i].tick = timeline[j].tick /\ IsEvent(j, "Arrived"))
                    => IsEvent(i, "Arrived")

\* C2: no process has two Arrived events, an Arrived event of p carries
\* p.arrival, and at the end of the run every process with arrival < runfor
\* has exactly one
C2_ArrivedOnce ==
    ValidInput =>
        /\ \A p \in Procs :
            /\ Cardinality(EventsOf("Arrived", p)) <= 1
            /\ \A i \in EventsOf("Arrived", p) : timeline[i].tick = arrival[p]
        /\ pc = "done" =>
            \A p \in Procs :
                arrival[p] < runfor => Cardinality(EventsOf("Arrived", p)) = 1

\* GA rr has finished a run with an idle tick 0 (emit_and_enqueue ran for
\* tick 0 before the loop and in it, and twice for tick 1) and an arrival at 1
C2_Witness ==
    /\ ValidInput /\ pc = "done" /\ variant = "GA" /\ use = "rr"
    /\ IdleAt(0) # {}
    /\ \E p \in Procs : arrival[p] = 1 /\ Cardinality(EventsOf("Arrived", p)) = 1
    /\ Cardinality(Procs) >= 2

\* C3: processes arriving at the same tick get their Arrived events in
\* ascending name order, for every listing order
C3_ArrivedByName ==
    ValidInput =>
        \A i, j \in Pos :
            (i < j /\ IsEvent(i, "Arrived") /\ IsEvent(j, "Arrived")
                /\ timeline[i].tick = timeline[j].tick)
                => timeline[i].subject < timeline[j].subject

\* C4: FCFS does not preempt: between the Selected event of p and a later
\* Selected event of another process lies p's Finished event
C4_FcfsNonPreemptive ==
    (ValidInput /\ use = "fcfs") =>
        \A i, j \in Pos :
            (i < j /\ IsEvent(i, "Selected") /\ IsEvent(j, "Selected")
                /\ timeline[i].subject # timeline[j].subject)
                => \E k \in i..j : /\ IsEvent(k, "Finished")
                                   /\ timeline[k].subject = timeline[i].subject

\* a shorter process arrived while p ran, p finished, then another was selected
C4_Witness ==
    /\ ValidInput /\ use = "fcfs"
    /\ \E i, a, k, j \in Pos :
        /\ i < a /\ a < k /\ k < j
        /\ IsEvent(i, "Selected") /\ IsEvent(a, "Arrived")
        /\ IsEvent(k, "Finished") /\ IsEvent(j, "Selected")
        /\ timeline[k].subject = timeline[i].subject
        /\ timeline[a].subject = timeline[j].subject
        /\ timeline[a].tick > timeline[i].tick
        /\ burst[timeline[a].subject] < burst[timeline[i].subject]

\* the case of C5: p executed tick T-1 and is unfinished, q arrives at T with
\* a burst below p's remaining, and tick T has been simulated
C5_Case(T, p, q) ==
    /\ T >= 1 /\ T < runfor /\ T < Len(ran)
    /\ ran[T] = p
    /\ RemainingAt(p, T) > 0
    /\ q # p
    /\ arrival[q] = T
    /\ burst[q] < RemainingAt(p, T)

SelectedOtherAt(p, tk) ==
    \E i \in Pos : /\ IsEvent(i, "Selected")
                   /\ timeline[i].tick = tk
                   /\ timeline[i].subject # p

\* C5 as claimed: the Selected event of a process other than p carries tick
\* T+1, not tick T (read in the claim's favour: only where tick T+1 lies
\* within the horizon, so that a Selected event at T+1 is possible)
C5_PreemptAtNextTick ==
    (ValidInput /\ use = "sjf" /\ pc = "done") =>
        \A T \in 1..MaxRunfor : \A p, q \in Procs :
            (C5_Case(T, p, q) /\ T + 1 < runfor)
                => SelectedOtherAt(p, T + 1) /\ ~SelectedOtherAt(p, T)

\* C5 as amended: the Selected event of a process other than p carries the
\* arrival tick T itself
C5_PreemptAtArrivalTick ==
    (ValidInput /\ use = "sjf") =>
        \A T \in 1..MaxRunfor : \A p, q \in Procs :
            C5_Case(T, p, q) => SelectedOtherAt(p, T)

C5_Witness ==
    /\ ValidInput /\ use = "sjf" /\ pc = "done"
    /\ \E T \in 1..MaxRunfor : \E p, q \in Procs :
        /\ C5_Case(T, p, q)
        /\ \E i \in EventsOf("Selected", q) : timeline[i].tick = T

\* the end of the slice p started at tick s: p executed s..e-1 without a new
\* Selected event, and at e another process runs, the CPU idles, p is selected
\* anew, or the history ends
IsSliceEnd(p, s, e) ==
    /\ e > s /\ e <= Len(ran)
    /\ \A k \in (s + 1)..e : ran[k] = p
    /\ \A k \in (s + 1)..(e - 1) : k \notin SelectedTicks(p)
    /\ \/ e = Len(ran)
       \/ ran[e + 1] # p
       \/ e \in SelectedTicks(p)

Unfinished(E) == {q \in Procs : RemainingAt(q, E) > 0}

\* C6: once all processes have arrived, a process put back on the queue at
\* tick E is selected again within (n-1) * quantum ticks, n the number of
\* unfinished processes at E, unless the horizon comes first
C6_RrWaitBound ==
    (ValidInput /\ use = "rr" /\ pc = "done") =>
        \A p \in Procs : \A s \in SelectedTicks(p) : \A E \in 1..MaxRunfor :
            LET bound == (Cardinality(Unfinished(E)) - 1) * quantum IN
            (/\ IsSliceEnd(p, s, E)
             /\ RemainingAt(p, E) > 0
             /\ \A q \in Procs : arrival[q] <= E
             /\ E + bound < runfor)
                => \E s2 \in SelectedTicks(p) : E <= s2 /\ s2 <= E + bound

\* p waited the full (n-1) * quantum with two other unfinished processes
C6_Witness ==
    /\ ValidInput /\ use = "rr" /\ pc = "done"
    /\ \E p \in Procs : \E s \in SelectedTicks(p) : \E E \in 1..MaxRunfor :
        /\ IsSliceEnd(p, s, E)
        /\ RemainingAt(p, E) > 0
        /\ \A q \in Procs : arrival[q] <= E
        /\ Cardinality(Unfinished(E)) = 3
        /\ E + 2 * quantum \in SelectedTicks(p)
        /\ \A s2 \in SelectedTicks(p) : ~(E <= s2 /\ s2 < E + 2 * quantum)

NumIdle == Cardinality({i \in Pos : IsEvent(i, "Idle")})
Executed == [p \in Procs |-> burst[p] - remaining[p]]

\* C7: every simulated tick is an idle tick with one Idle event or a tick one
\* process executed (its remaining dropped by 1); at the end of the run
\* Idle events + executed ticks = runfor
C7_TickConservation ==
    ValidInput =>
        /\ Len(ran) = t
        /\ \A k \in 0..(t - 1) :
            Cardinality(IdleAt(k)) = (IF ran[k + 1] = 0 THEN 1 ELSE 0)
        /\ \A p \in Procs : Executed[p] = ExecutedBefore(p, t)
        /\ pc = "done" => NumIdle + SumOver(Executed, Procs) = runfor

C7_Witness ==
    /\ ValidInput /\ pc = "done"
    /\ runfor = MaxRunfor
    /\ NumIdle >= 1
    /\ Cardinality({p \in Procs : Executed[p] >= 1}) >= 2

\* C8: a set finish_time comes with a set start_time and
\* finish_time > start_time >= arrival; the metrics satisfy
\* turnaround = waiting + burst and waiting >= response >= 0
C8_TimesAndMetrics ==
    ValidInput =>
        /\ \A p \in Procs :
            finish_time[p] # None =>
                /\ start_time[p] # None
                /\ finish_time[p] > start_time[p]
                /\ start_time[p] >= arrival[p]
        /\ pc = "done" =>
            \A p \in DOMAIN metrics.lines :
                LET m == metrics.lines[p] IN
                m # NoMetrics =>
                    /\ m.turnaround = m.waiting + burst[p]
                    /\ m.waiting >= m.response
                    /\ m.response >= 0

\* a finished process that waited before its first tick and again later
C8_Witness ==
    /\ ValidInput /\ pc = "done"
    /\ \E p \in DOMAIN metrics.lines :
        LET m == metrics.lines[p] IN
        m # NoMetrics /\ m.response > 0 /\ m.waiting > m.response

Untouched ==
    /\ timeline = <<>>
    /\ remaining = burst
    /\ \A p \in Procs : start_time[p] = None /\ finish_time[p] = None

\* C9: rr with a missing or non-positive quantum ends in a configuration
\* error before any simulation step
C9_BadQuantumRefused ==
    (use = "rr" /\ (~has_quantum \/ quantum <= 0)) =>
        pc \in {"main", "error"} /\ Untouched

\* C10: a processcount that differs from the number of process directives
\* ends in a configuration error and no policy function runs
C10_CountMismatchRefused ==
    processcount # Len(listing) => pc \in {"main", "error"} /\ Untouched

\* the process records are well-formed; between lines 71 and 75 of GA fcfs
\* (pc = "fcfs_run") a process that has just run out awaits its finish_time
RecordsWellFormed ==
    \A p \in Procs :
        /\ 0 <= remaining[p] /\ remaining[p] <= burst[p]
        /\ finish_time[p] # None => remaining[p] = 0
        /\ (remaining[p] = 0 /\ pc # "fcfs_run") => finish_time[p] # None

RecordsStep ==
    \A p \in Procs :
        /\ remaining'[p] <= remaining[p]
        /\ start_time[p] # None => start_time'[p] = start_time[p]
        /\ finish_time[p] # None => finish_time'[p] = finish_time[p]

\* C11: 0 <= remaining <= burst and remaining never increases; start_time,
\* once set, never changes; finish_time is set exactly when remaining = 0 and,
\* once set, never changes
C11_RecordInvariants == []RecordsWellFormed /\ [][RecordsStep]_vars

\* one process has finished, another was started and waits with work left
C11_Witness ==
    /\ \E p \in Procs : finish_time[p] # None
    /\ \E q \in Procs : /\ start_time[q] # None
                        /\ 0 < remaining[q] /\ remaining[q] < burst[q]
                        /\ current # q

\* C12: a run on the same process set, runfor and quantum with the process
\* directives listed in another order leaves the same event log and the same
\* final start_time, finish_time and remaining
C12_OrderIndependent ==
    (pc = "done" /\ prior # <<>>) => Outcome = prior[1]

\* C13: for a valid input the run raises no error and every step before the
\* end has a successor; a process with arrival >= runfor is never selected
\* and keeps start_time unset; at the end a process with remaining > 0 has
\* finish_time unset, a process has numeric waiting, turnaround and response
\* exactly when its finish_time is set, and every other process is reported
\* as did-not-finish
C13_DegenerateOutcomes ==
    ValidInput =>
        /\ pc # "error"
        /\ pc # "done" => ENABLED Next
        /\ \A p \in Procs :
            arrival[p] >= runfor =>
                start_time[p] = None /\ SelectedTicks(p) = {}
        /\ pc = "done" =>
            \A p \in Procs :
                /\ remaining[p] > 0 => finish_time[p] = None
                /\ p \in DOMAIN metrics.lines
                /\ finish_time[p] # None <=>
                        /\ metrics.lines[p] # NoMetrics
                        /\ metrics.lines[p].waiting \in Nat
                        /\ metrics.lines[p].turnaround \in Nat
                        /\ metrics.lines[p].response \in Nat
                /\ finish_time[p] = None <=> p \in metrics.unfinished

\* a finished run with a process that arrives at or after runfor and one that
\* was started and did not finish by runfor
C13_Witness ==
    /\ ValidInput /\ pc = "done"
    /\ \E p, q \in Procs :
        /\ arrival[p] >= runfor /\ p \in metrics.unfinished
        /\ start_time[q] # None /\ remaining[q] > 0
        /\ q \in metrics.unfinished /\ metrics.lines[q] = NoMetrics

\* the processes ready at the start of tick T
ReadyAt(T) == {p \in Procs : arrival[p] <= T /\ RemainingAt(p, T) > 0}

\* p comes no later than q under (remaining at the start of T, arrival, name)
SjfKeyLeq(p, q, T) ==
    LET rp == RemainingAt(p, T)
        rq_ == RemainingAt(q, T)
    IN \/ rp < rq_
       \/ rp = rq_ /\ arrival[p] < arrival[q]
       \/ rp = rq_ /\ arrival[p] = arrival[q] /\ p <= q

\* C14: in sjf, at every simulated tick T with a ready process, the process
\* executed during T is ready and is the minimum of the ready set under
\* (remaining at the start of T, arrival, name); no ready process has a
\* strictly smaller remaining
C14_SjfSelectsMinimum ==
    (ValidInput /\ use = "sjf") =>
        /\ pc = "done" => Len(ran) = runfor
        /\ \A T \in 0..(Len(ran) - 1) :
            ReadyAt(T) # {} =>
                /\ ran[T + 1] \in ReadyAt(T)
                /\ \A q \in ReadyAt(T) :
                    /\ SjfKeyLeq(ran[T + 1], q, T)
                    /\ RemainingAt(ran[T + 1], T) <= RemainingAt(q, T)

\* sjf executed a process at a tick where it was listed after another ready
\* process with a larger remaining, and at a tick where two ready processes
\* tied on remaining and arrival
C14_Witness ==
    /\ ValidInput /\ use = "sjf" /\ pc = "done"
    /\ \E T \in 0..(Len(ran) - 1) : \E q \in ReadyAt(T) :
        /\ ran[T + 1] \in ReadyAt(T)
        /\ RemainingAt(q, T) > RemainingAt(ran[T + 1], T)
        /\ \E i, j \in 1..Len(listing) :
            i < j /\ listing[i] = q /\ listing[j] = ran[T + 1]
    /\ \E T \in 0..(Len(ran) - 1) : \E q \in ReadyAt(T) \ {ran[T + 1]} :
        /\ ran[T + 1] \in ReadyAt(T)
        /\ RemainingAt(q, T) = RemainingAt(ran[T + 1], T)
        /\ arrival[q] = arrival[ran[T + 1]]

\* the Selected events of p at tick T
SelectedAt(p, T) == {i \in EventsOf("Selected", p) : timeline[i].tick = T}

\* p executes tick T and did not execute tick T-1
TakesCpuAt(p, T) ==
    /\ T < Len(ran) /\ ran[T + 1] = p
    /\ T = 0 \/ ran[T] # p

\* C15: in sjf, p has a Selected event at tick T exactly when p executes
\* tick T and did not execute tick T-1, and then it has one such event, which
\* carries p's remaining at the start of T; a process that keeps the CPU gets
\* no repeated event; start_time is the tick of the first Selected event
C15_SjfSelectedEvents ==
    (ValidInput /\ use = "sjf") =>
        \A p \in Procs :
            /\ \A T \in 0..MaxRunfor :
                /\ SelectedAt(p, T) # {} <=> TakesCpuAt(p, T)
                /\ Cardinality(SelectedAt(p, T)) <= 1
                /\ \A i \in SelectedAt(p, T) :
                    timeline[i].detail = RemainingAt(p, T)
            /\ IF SelectedTicks(p) = {} THEN start_time[p] = None
               ELSE /\ start_time[p] \in SelectedTicks(p)
                    /\ \A T \in SelectedTicks(p) : start_time[p] <= T

\* p was selected, was preempted, was selected again later with a smaller
\* remaining, and then kept the CPU for a second tick without a new event
C15_Witness ==
    /\ ValidInput /\ use = "sjf" /\ pc = "done"
    /\ \E p \in Procs : \E i, j \in EventsOf("Selected", p) :
        /\ timeline[i].tick + 1 < timeline[j].tick
        /\ timeline[j].detail < timeline[i].detail
        /\ start_time[p] = timeline[i].tick
        /\ timeline[j].tick + 2 <= Len(ran)
        /\ ran[timeline[j].tick + 2] = p
        /\ SelectedAt(p, timeline[j].tick + 1) = {}

\* a slice of p ends at tick E before the horizon with p unfinished
RequeuedAt(p, E) ==
    /\ E < runfor
    /\ RemainingAt(p, E) > 0
    /\ \E s \in SelectedTicks(p) : IsSliceEnd(p, s, E)

\* the processes that have arrived by tick E (a process arriving exactly at E
\* included) and wait unfinished while p's slice ends
WaitingAt(p, E) ==
    {q \in Procs \ {p} : arrival[q] <= E /\ RemainingAt(q, E) > 0}

\* C16: in rr, when a slice of p ends at tick E with p unfinished, every
\* other unfinished process with arrival <= E is selected before p is selected
\* again
C16_RrRequeueBehindArrivals ==
    (ValidInput /\ use = "rr") =>
        \A p \in Procs : \A E \in 1..MaxRunfor :
            RequeuedAt(p, E) =>
                \A s2 \in SelectedTicks(p) : s2 >= E =>
                    \A q \in WaitingAt(p, E) :
                        \E sq \in SelectedTicks(q) : E <= sq /\ sq < s2

\* p's slice ended at the tick q arrived with another process already
\* waiting, and both were selected before p was selected again
C16_Witness ==
    /\ ValidInput /\ use = "rr" /\ pc = "done"
    /\ \E p \in Procs : \E E \in 1..MaxRunfor :
        /\ RequeuedAt(p, E)
        /\ Cardinality(WaitingAt(p, E)) = 2
        /\ \E q \in WaitingAt(p, E) : arrival[q] = E
        /\ \E s2 \in SelectedTicks(p) : s2 >= E

\* C17: in rr, after a Selected event of p at tick s with detail r, r is p's
\* remaining at s and p executes exactly min(quantum, r, runfor - s)
\* consecutive ticks before the next Selected event, idle tick or end of the
\* run; so every tick p executes lies within quantum ticks after a Selected
\* event of p, also when p is re-selected at once from an otherwise empty queue
C17_RrSliceLength ==
    (ValidInput /\ use = "rr" /\ pc = "done") =>
        /\ \A i \in Pos : IsEvent(i, "Selected") =>
            LET p == timeline[i].subject
                s == timeline[i].tick
                r == timeline[i].detail
            IN /\ r = RemainingAt(p, s)
               /\ IsSliceEnd(p, s, s + Min2(Min2(quantum, r), runfor - s))
        /\ \A k \in 1..Len(ran) : ran[k] # 0 =>
            \E s \in SelectedTicks(ran[k]) :
                /\ s < k /\ k <= s + quantum
                /\ \A j \in (s + 1)..k : ran[j] = ran[k]

\* a process alone on the queue was re-selected at the end of a full quantum
\* of two ticks, and its second slice ended early with its last tick
C17_Witness ==
    /\ ValidInput /\ use = "rr" /\ pc = "done"
    /\ quantum = 2
    /\ \E p \in Procs : \E s \in SelectedTicks(p) :
        /\ s + quantum \in SelectedTicks(p)
        /\ IsSliceEnd(p, s, s + quantum)
        /\ RemainingAt(p, s + quantum) = 1
        /\ IsSliceEnd(p, s + quantum, s + quantum + 1)
        /\ finish_time[p] = s + quantum + 1

\* C18: in every policy an Idle event is logged for a simulated tick T exactly
\* when no process with arrival <= T has remaining > 0 at the start of T;
\* otherwise some process executes T; all ticks of [0, runfor) are simulated
C18_WorkConserving ==
    ValidInput =>
        /\ pc = "done" => Len(ran) = runfor
        /\ \A T \in 0..MaxRunfor :
            IF T < Len(ran)
            THEN /\ IdleAt(T) # {} <=> ReadyAt(T) = {}
                 /\ ReadyAt(T) # {} => ran[T + 1] \in Procs
            ELSE IdleAt(T) = {}

\* a run that idled before the first arrival, executed a process while
\* another one waited, and idled again after the last process finished
C18_Witness ==
    /\ ValidInput /\ pc = "done"
    /\ IdleAt(0) # {}
    /\ \E T \in 1..(Len(ran) - 1) : Cardinality(ReadyAt(T)) >= 2
    /\ \E T \in 1..(Len(ran) - 1) :
        /\ IdleAt(T) # {}
        /\ \A p \in Procs : finish_time[p] # None /\ finish_time[p] <= T

\* the place of p in the process list sorted ascending by (arrival, name)
ServiceRank(p) ==
    1 + Cardinality({q \in Procs :
            \/ arrival[q] < arrival[p]
            \/ arrival[q] = arrival[p] /\ q < p})

\* the Selected events of the log up to position i
SelectedUpTo(i) == {j \in 1..i : IsEvent(j, "Selected")}

\* C19: in fcfs the k-th Selected event of the log names the k-th process of
\* the list sorted by (arrival, name), for every listing order, so the
\* selections form a prefix of that list and no process is selected twice;
\* a finished process has finish_time = start_time + burst
C19_FcfsServiceOrder ==
    (ValidInput /\ use = "fcfs") =>
        /\ \A i \in Pos : IsEvent(i, "Selected") =>
            ServiceRank(timeline[i].subject) = Cardinality(SelectedUpTo(i))
        /\ \A p \in Procs : Cardinality(EventsOf("Selected", p)) <= 1
        /\ \A p \in Procs : finish_time[p] # None =>
            finish_time[p] = start_time[p] + burst[p]

\* three processes listed last-served first; the first in service order
\* finished, the second waited for the CPU, the third was never selected
C19_Witness ==
    /\ ValidInput /\ use = "fcfs" /\ pc = "done"
    /\ Len(listing) = 3
    /\ ServiceRank(listing[1]) = 3 /\ ServiceRank(listing[2]) = 2
    /\ EventsOf("Selected", listing[1]) = {}
    /\ EventsOf("Selected", listing[2]) # {}
    /\ finish_time[listing[3]] # None
    /\ start_time[listing[2]] > arrival[listing[2]]

\* C20: the clock never exceeds runfor and no tick >= runfor is executed;
\* every Arrived, Selected and Idle event carries a tick in [0, runfor - 1]
\* and a Finished event a tick in [0, runfor]; a process with
\* arrival = runfor has no Arrived event
C20_RunHorizon ==
    ValidInput =>
        /\ t <= runfor /\ Len(ran) <= runfor
        /\ \A i \in Pos :
            /\ timeline[i].tick >= 0
            /\ timeline[i].tick <= runfor
            /\ ~IsEvent(i, "Finished") => timeline[i].tick <= runfor - 1
        /\ \A p \in Procs : arrival[p] = runfor => EventsOf("Arrived", p) = {}

\* the Selected, Idle and Finished events of a log, in log order
Scheduling(log) == SelectSeq(log, LAMBDA e : e.kind # "Arrived")

\* C21: on the same valid input with the directives in ascending name order
\* the two variants leave the same start_time, finish_time and remaining and
\* the same sequence of Selected, Idle and Finished events, in every policy
C21_VariantsAgree ==
    (pc = "done" /\ variant = "RN" /\ prior # <<>>) =>
        /\ remaining = prior[1].remaining
        /\ start_time = prior[1].start_time
        /\ finish_time = prior[1].finish_time
        /\ Scheduling(timeline) = Scheduling(prior[1].timeline)

\* both variants have run rr on three processes with a preemption by quantum
\* expiry, a finished process and one left unfinished at the horizon
C21_Witness ==
    /\ pc = "done" /\ variant = "RN" /\ prior # <<>>
    /\ use = "rr" /\ Len(listing) = 3
    /\ \E p \in Procs : Cardinality(EventsOf("Selected", p)) >= 2
    /\ \E p \in Procs : finish_time[p] # None
    /\ \E p \in Procs : remaining[p] > 0
    /\ \E i \in DOMAIN prior[1].timeline : prior[1].timeline[i].kind = "Finished"

\* max(arrival) + sum(burst) over all processes
SufficientHorizon ==
    SumOver(burst, Procs)
        + (CHOOSE a \in Range(arrival) : \A b \in Range(arrival) : b <= a)

\* the end of a run: the clock is runfor, and under a sufficient horizon
\* every process is finished by max(arrival) + sum(burst)
CompletedRun ==
    /\ t = runfor
    /\ runfor >= SufficientHorizon =>
        \A p \in Procs :
            /\ remaining[p] = 0
            /\ finish_time[p] # None
            /\ finish_time[p] <= SufficientHorizon

\* C22: for a valid input every run terminates, no step moves the clock
\* back, and the run ends with the clock equal to runfor; if
\* runfor >= max(arrival) + sum(burst) every process ends with remaining = 0
\* and a finish_time <= max(arrival) + sum(burst)
C22_Completion ==
    /\ ValidInput => <>(pc = "done")
    /\ []((ValidInput /\ pc = "done") => CompletedRun)
    /\ [][ValidInput => t' >= t]_vars

\* three processes arriving together after an idle tick all finished, the
\* last one exactly at max(arrival) + sum(burst), within the horizon
C22_Witness ==
    /\ ValidInput /\ pc = "done"
    /\ Len(listing) = 3
    /\ runfor >= SufficientHorizon
    /\ IdleAt(0) # {}
    /\ \E p \in Procs : finish_time[p] = SufficientHorizon
    /\ \E p \in Procs : Cardinality(EventsOf("Selected", p)) >= 2

\* the top of an rr loop iteration at tick t, the arrivals of t enqueued
RrLoopTop == use = "rr" /\ pc = "rr" /\ t < runfor

\* the iteration dequeues: always in GeorgeAvdella, in RachelNieman when the
\* running process has finished or used up its quantum
RrDecision ==
    /\ RrLoopTop
    /\ variant = "RN" => RN_RrReschedule(current, remaining, remaining_quantum)

\* the ready queue at the loop top and the process holding the CPU there
RrQueueNow == IF variant = "GA" THEN GA_RrQueue ELSE RN_RrQueue
RrHolder == IF RrDecision THEN None ELSE current

Occurrences(q, p) == Cardinality({i \in DOMAIN q : q[i] = p})

\* C23: at every rr scheduling decision at tick t, just before the dequeue,
\* the ready queue holds exactly once every process with arrival <= t and
\* remaining > 0, and nothing else; while a process keeps the CPU in
\* between, the queue holds exactly once every such process but that one
C23_RrQueueInvariant ==
    (ValidInput /\ RrLoopTop) =>
        \A p \in Procs :
            Occurrences(RrQueueNow, p) =
                (IF arrival[p] <= t /\ remaining[p] > 0 /\ p # RrHolder
                 THEN 1 ELSE 0)

\* a decision of RachelNieman with three queued processes: one that arrived
\* earlier, one arriving at this tick, and last the process whose quantum
\* has just expired
C23_Witness ==
    /\ ValidInput /\ RrDecision /\ variant = "RN"
    /\ Len(RrQueueNow) = 3
    /\ t >= 1 /\ RrQueueNow[3] = ran[t]
    /\ arrival[RrQueueNow[2]] = t
    /\ arrival[RrQueueNow[1]] < t
====
